---- MODULE Spec2Model ----
(***************************************************************************)
(* Voxel raycasts of src/edition/raycast.cpp: the SDF, blocky and nonzero  *)
(* raycasts, the dispatcher raycast_generic, the world-space wrapper       *)
(* raycast_generic_world, and the binary-search refiner                    *)
(* approximate_distance_to_isosurface_binary_search.                       *)
(*                                                                         *)
(* Arithmetic is exact fixed point: a length, a coordinate, a distance     *)
(* along a ray and a direction component are integers counting 1/S units   *)
(* (S units = 1.0).  Floating rounding is not modelled.                    *)
(***************************************************************************)
EXTENDS Integers, Sequences, FiniteSets, TLC

VARIABLES
    call,   \* the raycast call made: its function and arguments (fn = "none" before)
    res,    \* what that call returned, with the reads and inner calls it made
    rs      \* the refiner's locals: d0, d1, sdf0, sdf1, loop counter, position

vars == <<call, res, rs>>

(***************************************************************************)
(* Bounds and units                                                        *)
(***************************************************************************)
\* largest binary_search_iterations drawn
MaxIter == 2

\* units per 1.0: multiples of 0.05 stay integral through MaxIter halvings
S == 20 * (2 ^ MaxIter)

\* the nudge step 0.5f (raycast.cpp:31,37)
Half == S \div 2

Abs(x) == IF x < 0 THEN -x ELSE x

(***************************************************************************)
(* approximate_distance_to_isosurface_binary_search, one sampler           *)
(* evaluation per step.  v is the value get_sdf_interpolated returns at    *)
(* the distance RefinePoint names.                                         *)
(***************************************************************************)
\* `for (int i = 0; i < 4 && ...)`
NudgeLimit == 4

\* locals at entry (raycast.cpp:26); sdf0, sdf1 are unset until sampled
RefineEntry(d1, n) ==
    [pc |-> "sample0", d0 |-> 0, d1 |-> d1, sdf0 |-> 0, sdf1 |-> 0, i |-> 0,
     d1_initial |-> d1, iterations |-> n,
     evals |-> 0, nudges0 |-> 0, nudges1 |-> 0, rounds |-> 0, ret |-> 0]

\* a fifth backward nudge: `i <= 4`
Nudge0ContinuesOffByOne(i, sdf0) == i <= NudgeLimit /\ sdf0 < 0

\* raycast.cpp:30  loop test of the backward nudge loop
Nudge0Continues(i, sdf0) == i < NudgeLimit /\ sdf0 < 0

\* raycast.cpp:36  loop test of the forward nudge loop
Nudge1Continues(i, sdf1) == i < NudgeLimit /\ sdf1 > 0

\* the sign test of line 41 left out
BisectEntryNoSignTest(sdf0, sdf1, n) ==
    IF 0 < n THEN "bisect" ELSE "pick"

\* raycast.cpp:41,43  `if ((sdf0 > 0) != (sdf1 > 0))` then `for (i < iterations)`
BisectEntry(sdf0, sdf1, n) ==
    IF ((sdf0 > 0) # (sdf1 > 0)) /\ 0 < n THEN "bisect" ELSE "pick"

\* the distance the next evaluation samples at
RefinePoint(st) ==
    CASE st.pc = "sample0" -> 0
      [] st.pc = "nudge0"  -> st.d0 - Half
      [] st.pc = "sample1" -> st.d1
      [] st.pc = "nudge1"  -> st.d1 + Half
      [] st.pc = "bisect"  -> (st.d0 + st.d1) \div 2
      [] OTHER             -> 0

\* raycast.cpp:27
Sample0(st, v) ==
    [st EXCEPT !.sdf0 = v, !.i = 0, !.evals = @ + 1,
               !.pc = IF Nudge0Continues(0, v) THEN "nudge0" ELSE "sample1"]

\* raycast.cpp:30-33, one pass of the loop body
NudgeBack(st, v) ==
    [st EXCEPT !.d0 = @ - Half, !.sdf0 = v, !.i = @ + 1,
               !.evals = @ + 1, !.nudges0 = @ + 1,
               !.pc = IF Nudge0Continues(st.i + 1, v) THEN "nudge0" ELSE "sample1"]

\* raycast.cpp:35
Sample1(st, v) ==
    [st EXCEPT !.sdf1 = v, !.i = 0, !.evals = @ + 1,
               !.pc = IF Nudge1Continues(0, v) THEN "nudge1"
                      ELSE BisectEntry(st.sdf0, v, st.iterations)]

\* raycast.cpp:36-39, one pass of the loop body
NudgeForward(st, v) ==
    [st EXCEPT !.d1 = @ + Half, !.sdf1 = v, !.evals = @ + 1, !.nudges1 = @ + 1,
               !.i = IF Nudge1Continues(st.i + 1, v) THEN st.i + 1 ELSE 0,
               !.pc = IF Nudge1Continues(st.i + 1, v) THEN "nudge1"
                      ELSE BisectEntry(st.sdf0, v, st.iterations)]

\* the midpoint taken as 0.5f * (d1 - d0)
BisectRoundHalfWidth(st, v) ==
    LET dm == (st.d1 - st.d0) \div 2
        moved == IF (v > 0) # (st.sdf0 > 0)
                 THEN [st EXCEPT !.sdf1 = v, !.d1 = dm]
                 ELSE [st EXCEPT !.sdf0 = v, !.d0 = dm]
    IN  [moved EXCEPT !.i = @ + 1, !.evals = @ + 1, !.rounds = @ + 1,
                      !.pc = IF st.i + 1 < st.iterations THEN "bisect" ELSE "pick"]

\* raycast.cpp:43-54, one bisection round
BisectRound(st, v) ==
    LET dm == (st.d0 + st.d1) \div 2
        moved == IF (v > 0) # (st.sdf0 > 0)
                 THEN [st EXCEPT !.sdf1 = v, !.d1 = dm]
                 ELSE [st EXCEPT !.sdf0 = v, !.d0 = dm]
    IN  [moved EXCEPT !.i = @ + 1, !.evals = @ + 1, !.rounds = @ + 1,
                      !.pc = IF st.i + 1 < st.iterations THEN "bisect" ELSE "pick"]

\* raycast.cpp:57-62  pick the distance closest to the surface
Pick(st) ==
    [st EXCEPT !.ret = IF Abs(st.sdf0) < Abs(st.sdf1) THEN st.d0 ELSE st.d1,
               !.pc = "done"]

\* one step of the function from state st, the sampler returning v
RefineStep(st, v) ==
    CASE st.pc = "sample0" -> Sample0(st, v)
      [] st.pc = "nudge0"  -> NudgeBack(st, v)
      [] st.pc = "sample1" -> Sample1(st, v)
      [] st.pc = "nudge1"  -> NudgeForward(st, v)
      [] st.pc = "bisect"  -> BisectRound(st, v)
      [] st.pc = "pick"    -> Pick(st)
      [] OTHER             -> st

(***************************************************************************)
(* Vectors (Vector3, Vector3i) and the voxel data the raycasts read        *)
(***************************************************************************)
VAdd(a, b) == <<a[1] + b[1], a[2] + b[2], a[3] + b[3]>>
VSub(a, b) == <<a[1] - b[1], a[2] - b[2], a[3] - b[3]>>
LengthSq(a) == a[1] * a[1] + a[2] * a[2] + a[3] * a[3]

\* origin + dir * t  (dir and t in 1/S units)
PointAt(origin, dir, t) ==
    <<origin[1] + (dir[1] * t) \div S,
      origin[2] + (dir[2] * t) \div S,
      origin[3] + (dir[3] * t) \div S>>

\* math::floor_to_int: the cell holding point p
FloorToInt(p) == <<p[1] \div S, p[2] \div S, p[3] \div S>>

\* constants::SDF_FAR_OUTSIDE, the default of the SDF channel
SDF_FAR_OUTSIDE == 100

\* the cells the volume stores; get_voxel returns the default elsewhere
DataCells == {<<x, y, z>> : x \in -1..2, y \in -1..2, z \in -1..1}

\* VoxelData::get_voxel(pos, channel, defval).  A volume is the set of its
\* solid cells (SDF -1, or -3 in vol.deep; type vol.typ; color 5 * (vol.typ - 1));
\* its other stored cells are air (SDF 1, type 0, color 0).
GetVoxel(vol, pos, channel, defval) ==
    IF pos \notin DataCells THEN defval
    ELSE IF pos \in vol.solid
         THEN CASE channel = "SDF"   -> IF pos \in vol.deep THEN -3 ELSE -1
                [] channel = "TYPE"  -> vol.typ
                [] channel = "COLOR" -> 5 * (vol.typ - 1)
         ELSE CASE channel = "SDF"   -> 1
                [] channel = "TYPE"  -> 0
                [] channel = "COLOR" -> 0

\* raycast_sdf::VolumeSampler (raycast.cpp:132-141)
VolumeSampler(vol, pos) == GetVoxel(vol, pos, "SDF", SDF_FAR_OUTSIDE)

\* get_sdf_interpolated: trilinear interpolation of the sampler over the
\* eight corners of the cell holding p; the value is scaled by S^3
GetSdfInterpolated(vol, p) ==
    LET c == FloorToInt(p)
        f == <<p[1] - c[1] * S, p[2] - c[2] * S, p[3] - c[3] * S>>
        W(k, bit) == IF bit = 1 THEN f[k] ELSE S - f[k]
        Term(bx, by, bz) ==
            W(1, bx) * W(2, by) * W(3, bz) * VolumeSampler(vol, VAdd(c, <<bx, by, bz>>))
    IN  Term(0, 0, 0) + Term(1, 0, 0) + Term(0, 1, 0) + Term(1, 1, 0)
      + Term(0, 0, 1) + Term(1, 0, 1) + Term(0, 1, 1) + Term(1, 1, 1)

\* the refiner run to its return against the volume's sampler:
\* f is VolumeSampler, the samples are taken at pos0 + dir * d
RECURSIVE RefineRun(_, _, _, _)
RefineRun(st, vol, pos0, dir) ==
    IF st.pc = "done" THEN st
    ELSE RefineRun(
            RefineStep(st, GetSdfInterpolated(vol, PointAt(pos0, dir, RefinePoint(st)))),
            vol, pos0, dir)

(***************************************************************************)
(* Baked collision data of the blocky library, and AABB::intersects_segment*)
(***************************************************************************)
\* VoxelBlockyLibraryBase::BakedData: type 0 is air (a model without boxes),
\* type 1 a full cube on layer 0, type 2 a lower half slab on layer 1;
\* type 3 has no model
BakedModels ==
    [id \in 0..2 |->
        CASE id = 0 -> [box_collision_mask |-> {0}, box_collision_aabbs |-> {}]
          [] id = 1 -> [box_collision_mask |-> {0},
                        box_collision_aabbs |-> {[position |-> <<0, 0, 0>>, size |-> <<S, S, S>>]}]
          [] id = 2 -> [box_collision_mask |-> {1},
                        box_collision_aabbs |-> {[position |-> <<0, 0, 0>>, size |-> <<S, Half, S>>]}]]

HasModel(v) == v \in DOMAIN BakedModels

\* one axis of AABB::intersects_segment: fail, or the part [cmin, cmax] of the
\* segment inside the slab, as fractions num/den with den > 0
SlabAxis(a, b, lo, hi) ==
    IF a < b
    THEN IF a > hi \/ b < lo THEN [ok |-> FALSE]
         ELSE [ok |-> TRUE,
               cmin |-> IF a < lo THEN <<lo - a, b - a>> ELSE <<0, 1>>,
               cmax |-> IF b > hi THEN <<hi - a, b - a>> ELSE <<1, 1>>]
    ELSE IF b > hi \/ a < lo THEN [ok |-> FALSE]
         ELSE [ok |-> TRUE,
               cmin |-> IF a > hi THEN <<a - hi, a - b>> ELSE <<0, 1>>,
               cmax |-> IF b < lo THEN <<a - lo, a - b>> ELSE <<1, 1>>]

FracLess(p, q) == p[1] * q[2] < q[1] * p[2]

\* AABB(position, size).intersects_segment(from, to): the slab test
IntersectsSegment(position, size, from, to) ==
    LET ax == [k \in 1..3 |-> SlabAxis(from[k], to[k], position[k], position[k] + size[k])]
    IN  /\ \A k \in 1..3 : ax[k].ok
        /\ \A j \in 1..3, k \in 1..3 : ~FracLess(ax[k].cmax, ax[j].cmin)

\* a voxel position as a point: Vector3(hit_position)
CellCorner(cell) == <<cell[1] * S, cell[2] * S, cell[3] * S>>

(***************************************************************************)
(* The three predicates                                                    *)
(***************************************************************************)
\* raycast_sdf::RaycastPredicate (raycast.cpp:80-90)
RaycastPredicate(vol, hit_position) ==
    GetVoxel(vol, hit_position, "SDF", SDF_FAR_OUTSIDE) < 0

\* the blocky predicate without its collision mask test
RaycastPredicateBlockyNoMask(vol, collision_mask, p_from, p_to, hit_position) ==
    LET v == GetVoxel(vol, hit_position, "TYPE", 0) IN
    IF ~HasModel(v) THEN FALSE
    ELSE \E aabb \in BakedModels[v].box_collision_aabbs :
            IntersectsSegment(VAdd(aabb.position, CellCorner(hit_position)), aabb.size,
                              p_from, p_to)

\* raycast_blocky::RaycastPredicateBlocky (raycast.cpp:171-200)
RaycastPredicateBlocky(vol, collision_mask, p_from, p_to, hit_position) ==
    LET v == GetVoxel(vol, hit_position, "TYPE", 0) IN
    IF ~HasModel(v) THEN FALSE
    ELSE IF BakedModels[v].box_collision_mask \cap collision_mask = {} THEN FALSE
    ELSE \E aabb \in BakedModels[v].box_collision_aabbs :
            IntersectsSegment(VAdd(aabb.position, CellCorner(hit_position)), aabb.size,
                              p_from, p_to)

\* raycast_nonzero::RaycastPredicateColor (raycast.cpp:241-251)
RaycastPredicateColor(vol, channel, hit_position) ==
    GetVoxel(vol, hit_position, channel, 0) # 0

\* the predicate object handed to voxel_raycast, applied to a cell
Predicate(p, hit_position) ==
    CASE p.kind = "sdf"     -> RaycastPredicate(p.vol, hit_position)
      [] p.kind = "blocky"  -> RaycastPredicateBlocky(p.vol, p.collision_mask,
                                                      p.p_from, p.p_to, hit_position)
      [] p.kind = "nonzero" -> RaycastPredicateColor(p.vol, p.channel, hit_position)

(***************************************************************************)
(* voxel_raycast: the grid traversal.  From the cell of the origin it      *)
(* crosses one cell boundary per step, nearest first, and asks the         *)
(* predicate about each cell it enters; it gives up at the first boundary  *)
(* farther than max_distance.                                              *)
(***************************************************************************)
\* "never crosses": larger than every distance drawn
Infinite == 9999999

Sign(x) == IF x > 0 THEN 1 ELSE IF x < 0 THEN -1 ELSE 0

\* parametric length of one cell along axis k
TDelta(dir, k) == IF dir[k] = 0 THEN Infinite ELSE (S * S) \div Abs(dir[k])

\* parametric distance from the origin to the first boundary along axis k
TCross0(origin, dir, k) ==
    LET lo == (origin[k] \div S) * S IN
    IF dir[k] > 0 THEN ((lo + S - origin[k]) * S) \div dir[k]
    ELSE IF dir[k] < 0 THEN ((origin[k] - lo) * S) \div (-dir[k])
    ELSE Infinite

RECURSIVE Walk(_, _, _, _)
Walk(w, dir, p, max_distance) ==
    LET tc == w.tcross
        k == IF tc[1] < tc[2] THEN (IF tc[1] < tc[3] THEN 1 ELSE 3)
             ELSE (IF tc[2] < tc[3] THEN 2 ELSE 3)
        pos == [w.hit_position EXCEPT ![k] = @ + Sign(dir[k])]
    IN  IF tc[k] > max_distance
        THEN [hit |-> FALSE, reads |-> w.reads]
        ELSE IF Predicate(p, pos)
        THEN [hit |-> TRUE, hit_pos |-> pos, prev_pos |-> w.hit_position,
              distance |-> tc[k], distance_prev |-> w.t, reads |-> w.reads + 1]
        ELSE Walk([hit_position |-> pos, t |-> tc[k],
                   tcross |-> [tc EXCEPT ![k] = @ + TDelta(dir, k)],
                   reads |-> w.reads + 1],
                  dir, p, max_distance)

VoxelRaycast(ray_origin, ray_dir, p, max_distance) ==
    Walk([hit_position |-> FloorToInt(ray_origin), t |-> 0,
          tcross |-> <<TCross0(ray_origin, ray_dir, 1), TCross0(ray_origin, ray_dir, 2),
                       TCross0(ray_origin, ray_dir, 3)>>,
          reads |-> 0],
         ray_dir, p, max_distance)

(***************************************************************************)
(* The raycasts.  A result is the VoxelRaycastResult (present = the Ref is *)
(* valid) with what the call did: reads counts get_voxel reads made by     *)
(* predicates.                                                             *)
(***************************************************************************)
NullResult(reads) ==
    [present |-> FALSE, position |-> <<0, 0, 0>>, previous_position |-> <<0, 0, 0>>,
     distance_along_ray |-> 0, reads |-> reads]

Result(tr, d) ==
    [present |-> TRUE, position |-> tr.hit_pos, previous_position |-> tr.prev_pos,
     distance_along_ray |-> d, reads |-> tr.reads]

\* `const Vector3 offset(0.5, 0.5, 0.5)`
Offset == <<Half, Half, Half>>

SdfTraversal(vol, ray_origin, ray_dir, max_distance) ==
    VoxelRaycast(VAdd(ray_origin, Offset), ray_dir, [kind |-> "sdf", vol |-> vol], max_distance)

\* the refiner as raycast_sdf calls it (raycast.cpp:144-151): its final locals
SdfRefinement(vol, ray_origin, ray_dir, tr, binary_search_iterations) ==
    RefineRun(RefineEntry(tr.distance - tr.distance_prev, binary_search_iterations),
              vol, PointAt(ray_origin, ray_dir, tr.distance_prev), ray_dir)

\* raycast_sdf without the (0.5, 0.5, 0.5) offset of the origin
RaycastSdfNoOffset(vol, ray_origin, ray_dir, max_distance, binary_search_iterations) ==
    LET tr == VoxelRaycast(ray_origin, ray_dir, [kind |-> "sdf", vol |-> vol], max_distance) IN
    IF ~tr.hit THEN NullResult(tr.reads)
    ELSE IF binary_search_iterations > 0
    THEN Result(tr, tr.distance_prev
                    + SdfRefinement(vol, ray_origin, ray_dir, tr, binary_search_iterations).ret)
    ELSE Result(tr, tr.distance)

\* raycast_sdf adding the refiner's distance to hit_distance
RaycastSdfFromHit(vol, ray_origin, ray_dir, max_distance, binary_search_iterations) ==
    LET tr == SdfTraversal(vol, ray_origin, ray_dir, max_distance) IN
    IF ~tr.hit THEN NullResult(tr.reads)
    ELSE IF binary_search_iterations > 0
    THEN Result(tr, tr.distance
                    + SdfRefinement(vol, ray_origin, ray_dir, tr, binary_search_iterations).ret)
    ELSE Result(tr, tr.distance)

\* raycast_sdf (raycast.cpp:65-161)
RaycastSdf(vol, ray_origin, ray_dir, max_distance, binary_search_iterations) ==
    LET tr == SdfTraversal(vol, ray_origin, ray_dir, max_distance) IN
    IF ~tr.hit THEN NullResult(tr.reads)
    ELSE IF binary_search_iterations > 0
    THEN Result(tr, tr.distance_prev
                    + SdfRefinement(vol, ray_origin, ray_dir, tr, binary_search_iterations).ret)
    ELSE Result(tr, tr.distance)

\* raycast_blocky (raycast.cpp:163-232); a mesher is [kind, library_null]
RaycastBlocky(vol, mesher, ray_origin, ray_dir, max_distance, p_collision_mask) ==
    IF mesher.library_null THEN NullResult(0)
    ELSE LET predicate == [kind |-> "blocky", vol |-> vol,
                           collision_mask |-> p_collision_mask,
                           p_from |-> ray_origin,
                           p_to |-> PointAt(ray_origin, ray_dir, max_distance)]
             tr == VoxelRaycast(ray_origin, ray_dir, predicate, max_distance)
         IN  IF tr.hit THEN Result(tr, tr.distance) ELSE NullResult(tr.reads)

\* raycast_nonzero (raycast.cpp:234-272)
RaycastNonzero(vol, ray_origin, ray_dir, max_distance, p_channel) ==
    LET tr == VoxelRaycast(ray_origin, ray_dir,
                           [kind |-> "nonzero", vol |-> vol, channel |-> p_channel],
                           max_distance)
    IN  IF tr.hit THEN Result(tr, tr.distance) ELSE NullResult(tr.reads)

\* raycast_generic (raycast.cpp:274-301)
RaycastGeneric(vol, mesher, ray_origin, ray_dir, max_distance, p_collision_mask, binary_search_iterations) ==
    IF mesher.kind = "blocky"
    THEN RaycastBlocky(vol, mesher, ray_origin, ray_dir, max_distance, p_collision_mask)
    ELSE IF mesher.kind = "cubes"
    THEN RaycastNonzero(vol, ray_origin, ray_dir, max_distance, "COLOR")
    ELSE RaycastSdf(vol, ray_origin, ray_dir, max_distance, 0)

(***************************************************************************)
(* raycast_generic_world.  A Transform3D is a uniform scale followed by a  *)
(* translation: to_world.xform(p) = scale * p + origin.                    *)
(***************************************************************************)
Xform(to_world, p) ==
    <<to_world.scale * p[1] + to_world.origin[1],
      to_world.scale * p[2] + to_world.origin[2],
      to_world.scale * p[3] + to_world.origin[3]>>

\* to_world.affine_inverse().xform(p)
XformInverse(to_world, p) ==
    <<(p[1] - to_world.origin[1]) \div to_world.scale,
      (p[2] - to_world.origin[2]) \div to_world.scale,
      (p[3] - to_world.origin[3]) \div to_world.scale>>

\* Math::sqrt on a square: the r in lo..hi with r * r <= x < (r + 1) * (r + 1)
RECURSIVE SqrtIn(_, _, _)
SqrtIn(x, lo, hi) ==
    IF lo >= hi THEN lo
    ELSE LET mid == (lo + hi + 1) \div 2 IN
         IF mid * mid <= x THEN SqrtIn(x, mid, hi) ELSE SqrtIn(x, lo, mid - 1)

Sqrt(x) == SqrtIn(x, 0, 40 * S)

\* 1 / 0.000001f
EpsilonInverse == 1000000

\* the epsilon compared in whole units: spans up to 2.0 count as degenerate
IsDegenerateCoarse(max_distance_local_sq) ==
    max_distance_local_sq <= 4 * S * S

\* `max_distance_local_sq < 0.000001f`, the squared distance in squared 1/S units
IsDegenerate(max_distance_local_sq) ==
    max_distance_local_sq <= (S * S - 1) \div EpsilonInverse

\* the ray's end taken as ray_origin_world + ray_dir_world, max_distance_world left out
LocalRayEndAtDir(to_world, ray_origin_world, ray_dir_world, max_distance_world) ==
    LET ray_end_world == VAdd(ray_origin_world, ray_dir_world)
        pos0_local == XformInverse(to_world, ray_origin_world)
        pos1_local == XformInverse(to_world, ray_end_world)
    IN  [ray_end_world |-> ray_end_world, pos0_local |-> pos0_local, pos1_local |-> pos1_local,
         max_distance_local_sq |-> LengthSq(VSub(pos1_local, pos0_local))]

\* the local ray raycast_generic_world derives (raycast.cpp:320-332)
LocalRay(to_world, ray_origin_world, ray_dir_world, max_distance_world) ==
    LET ray_end_world == PointAt(ray_origin_world, ray_dir_world, max_distance_world)
        pos0_local == XformInverse(to_world, ray_origin_world)
        pos1_local == XformInverse(to_world, ray_end_world)
    IN  [ray_end_world |-> ray_end_world, pos0_local |-> pos0_local, pos1_local |-> pos1_local,
         max_distance_local_sq |-> LengthSq(VSub(pos1_local, pos0_local))]

\* the direction handed on: (pos1_local - pos0_local) / max_distance_local
DirLocal(lr, max_distance_local) ==
    LET d == VSub(lr.pos1_local, lr.pos0_local) IN
    <<(d[1] * S) \div max_distance_local, (d[2] * S) \div max_distance_local,
      (d[3] * S) \div max_distance_local>>

\* raycast_generic_world (raycast.cpp:303-345).  The result also records
\* whether raycast_generic was called, with which ray, and what it returned.
RaycastGenericWorld(vol, mesher, to_world, ray_origin_world, ray_dir_world, max_distance_world, p_collision_mask, binary_search_iterations) ==
    LET lr == LocalRay(to_world, ray_origin_world, ray_dir_world, max_distance_world) IN
    IF IsDegenerate(lr.max_distance_local_sq)
    THEN [NullResult(0) EXCEPT !.reads = 0] @@ [invoked |-> FALSE]
    ELSE LET max_distance_local == Sqrt(lr.max_distance_local_sq)
             dir_local == DirLocal(lr, max_distance_local)
             r == RaycastGeneric(vol, mesher, lr.pos0_local, dir_local, max_distance_local,
                                 p_collision_mask, 0)
             max_distance_world_sq == LengthSq(VSub(ray_origin_world, lr.ray_end_world))
             to_world_scale == max_distance_world_sq \div lr.max_distance_local_sq
             inner == [invoked |-> TRUE, dir_local |-> dir_local,
                       max_distance_local |-> max_distance_local,
                       distance_local |-> r.distance_along_ray]
         IN  IF r.present
             THEN [r EXCEPT !.distance_along_ray = @ * to_world_scale] @@ inner
             ELSE r @@ inner

(***************************************************************************)
(* The calls: one raycast per behaviour, its arguments drawn from the sets *)
(* below.                                                                  *)
(***************************************************************************)
SolidCandidates == {<<0, 0, 0>>, <<1, 0, 0>>, <<0, 1, 0>>}

\* a row of four solid cells along x, the last one deeper inside
SolidRow ==
    [solid |-> {<<-1, 0, 0>>, <<0, 0, 0>>, <<1, 0, 0>>, <<2, 0, 0>>}, deep |-> {<<2, 0, 0>>},
     typ |-> 1]

Volumes ==
    {[solid |-> c, deep |-> {}, typ |-> m] :
        c \in {x \in SUBSET SolidCandidates : Cardinality(x) <= 2}, m \in 1..3}
    \cup {SolidRow}

Tenth == S \div 10

\* (-5, 0.1, 0.1), (3.3, 0.7, 0.2), (0.4, -2.2, 0.1), (-1.3, -1.3, 0.4), (0.2, 0.3, 0.4),
\* (-5, 0.4, 0.4), (1.1, 0.1, 0.1), (0.1, 0.1, 0.1)
Origins ==
    {<<-5 * S, Tenth, Tenth>>, <<33 * Tenth, 7 * Tenth, 2 * Tenth>>,
     <<4 * Tenth, -22 * Tenth, Tenth>>, <<-13 * Tenth, -13 * Tenth, 4 * Tenth>>,
     <<2 * Tenth, 3 * Tenth, 4 * Tenth>>,
     <<-5 * S, 4 * Tenth, 4 * Tenth>>, <<11 * Tenth, Tenth, Tenth>>, <<Tenth, Tenth, Tenth>>}

\* unit directions along the axes, one of length 2, and the zero vector
AxisDirs == {<<S, 0, 0>>, <<-S, 0, 0>>, <<0, S, 0>>, <<2 * S, 0, 0>>, <<0, 0, 0>>}

\* and the diagonal (1, 1, 0)
Dirs == AxisDirs \cup {<<S, S, 0>>}

\* 0, 2, 4.5 and 10
MaxDistances == {0, 2 * S, 9 * Half, 10 * S}

Meshers ==
    {[kind |-> "blocky", library_null |-> FALSE], [kind |-> "blocky", library_null |-> TRUE],
     [kind |-> "cubes", library_null |-> FALSE], [kind |-> "other", library_null |-> FALSE]}

BlockyMeshers == {m \in Meshers : m.kind = "blocky"}

\* collision masks, as the sets of their bits
Masks == {{}, {0}, {1}, {0, 1}}

Identity == [scale |-> 1, origin |-> <<0, 0, 0>>]

Transforms ==
    {Identity, [scale |-> 2, origin |-> <<0, 0, 0>>], [scale |-> 2, origin |-> <<S, 0, -2 * S>>]}

NoCall == [fn |-> "none"]
NoRes == [present |-> FALSE]
Idle == [pc |-> "idle"]

Init ==
    /\ call = NoCall
    /\ res = NoRes
    /\ rs = Idle

CallRaycastSdf ==
    /\ call.fn = "none"
    /\ \E vol \in Volumes, o \in Origins, d \in Dirs, md \in MaxDistances, n \in 0..MaxIter :
        LET tr == SdfTraversal(vol, o, d, md) IN
        /\ call' = [fn |-> "sdf", vol |-> vol, ray_origin |-> o, ray_dir |-> d,
                    max_distance |-> md, binary_search_iterations |-> n]
        /\ res' = RaycastSdf(vol, o, d, md, n)
        /\ rs' = IF tr.hit /\ n > 0 THEN SdfRefinement(vol, o, d, tr, n) ELSE rs

CallRaycastBlocky ==
    /\ call.fn = "none"
    /\ \E vol \in Volumes, m \in BlockyMeshers, o \in Origins, d \in Dirs,
          md \in MaxDistances, mask \in Masks :
        /\ call' = [fn |-> "blocky", vol |-> vol, mesher |-> m, ray_origin |-> o,
                    ray_dir |-> d, max_distance |-> md, collision_mask |-> mask]
        /\ res' = RaycastBlocky(vol, m, o, d, md, mask)
    /\ UNCHANGED rs

CallRaycastNonzero ==
    /\ call.fn = "none"
    /\ \E vol \in Volumes, o \in Origins, d \in Dirs, md \in MaxDistances,
          ch \in {"TYPE", "COLOR"} :
        /\ call' = [fn |-> "nonzero", vol |-> vol, ray_origin |-> o, ray_dir |-> d,
                    max_distance |-> md, channel |-> ch]
        /\ res' = RaycastNonzero(vol, o, d, md, ch)
    /\ UNCHANGED rs

CallRaycastGeneric ==
    /\ call.fn = "none"
    /\ \E vol \in Volumes, m \in Meshers, o \in Origins, d \in Dirs, md \in MaxDistances,
          mask \in {{}, {0, 1}}, n \in {0, MaxIter} :
        /\ call' = [fn |-> "generic", vol |-> vol, mesher |-> m, ray_origin |-> o,
                    ray_dir |-> d, max_distance |-> md, collision_mask |-> mask,
                    binary_search_iterations |-> n]
        /\ res' = RaycastGeneric(vol, m, o, d, md, mask, n)
    /\ UNCHANGED rs

CallRaycastGenericWorld ==
    /\ call.fn = "none"
    /\ \E vol \in Volumes, m \in Meshers, xf \in Transforms, o \in Origins, d \in AxisDirs,
          md \in MaxDistances, mask \in {{}, {0, 1}}, n \in {0, MaxIter} :
        /\ call' = [fn |-> "world", vol |-> vol, mesher |-> m, to_world |-> xf,
                    ray_origin |-> Xform(xf, o), ray_dir |-> d, max_distance |-> md,
                    collision_mask |-> mask, binary_search_iterations |-> n]
        /\ res' = RaycastGenericWorld(vol, m, xf, Xform(xf, o), d, md, mask, n)
    /\ UNCHANGED rs

Next ==
    \/ CallRaycastSdf
    \/ CallRaycastBlocky
    \/ CallRaycastNonzero
    \/ CallRaycastGeneric
    \/ CallRaycastGenericWorld

Spec == Init /\ [][Next]_vars

(***************************************************************************)
(* The refiner on its own, against an arbitrary sampler: every evaluation  *)
(* may return any value of SampleVals.                                     *)
(***************************************************************************)
SampleVals == {-2, -1, 0, 1, 2}

\* d1 arguments drawn: 0, 0.25, 0.5, 1.0, 1.5 and a negative one
D1Inits == {0, S \div 4, S \div 2, S, (3 * S) \div 2, -(S \div 2)}

InitRefine ==
    /\ call = NoCall
    /\ res = NoRes
    /\ \E d1 \in D1Inits, n \in 0..MaxIter : rs = RefineEntry(d1, n)

StepSample0 ==
    /\ rs.pc = "sample0"
    /\ \E v \in SampleVals : rs' = Sample0(rs, v)
    /\ UNCHANGED <<call, res>>

StepNudgeBack ==
    /\ rs.pc = "nudge0"
    /\ \E v \in SampleVals : rs' = NudgeBack(rs, v)
    /\ UNCHANGED <<call, res>>

StepSample1 ==
    /\ rs.pc = "sample1"
    /\ \E v \in SampleVals : rs' = Sample1(rs, v)
    /\ UNCHANGED <<call, res>>

StepNudgeForward ==
    /\ rs.pc = "nudge1"
    /\ \E v \in SampleVals : rs' = NudgeForward(rs, v)
    /\ UNCHANGED <<call, res>>

StepBisect ==
    /\ rs.pc = "bisect"
    /\ \E v \in SampleVals : rs' = BisectRound(rs, v)
    /\ UNCHANGED <<call, res>>

StepPick ==
    /\ rs.pc = "pick"
    /\ rs' = Pick(rs)
    /\ UNCHANGED <<call, res>>

NextRefine ==
    \/ StepSample0
    \/ StepNudgeBack
    \/ StepSample1
    \/ StepNudgeForward
    \/ StepBisect
    \/ StepPick

\* a call runs to completion: no suspension points, no cancellation
SpecRefine == InitRefine /\ [][NextRefine]_vars /\ WF_vars(NextRefine)

(***************************************************************************)
(* Properties of the refiner, under SpecRefine                             *)
(***************************************************************************)
\* the bracket the nudge loops leave: d0 moved back nudges0 times, d1 forward nudges1 times
NudgedD0(st) == -(Half * st.nudges0)
NudgedD1(st) == st.d1_initial + Half * st.nudges1

\* the sign test of line 41 on the current endpoint samples
SignsDiffer(st) == (st.sdf0 > 0) # (st.sdf1 > 0)

\* C7: every bisection round replaces exactly one of d0, d1 by the exact midpoint
\* (d0 + d1) / 2, leaves the other alone and so halves |d1 - d0|; after k rounds
\* the width is the width the nudge loops left, divided by 2^k.
C7_BisectionHalves ==
    [][rs.pc = "bisect" =>
         LET dm == (rs.d0 + rs.d1) \div 2 IN
         /\ 2 * dm = rs.d0 + rs.d1
         /\ \/ rs'.d0 = dm /\ rs'.d1 = rs.d1
            \/ rs'.d1 = dm /\ rs'.d0 = rs.d0
         /\ 2 * Abs(rs'.d1 - rs'.d0) = Abs(rs.d1 - rs.d0)
         /\ rs'.rounds = rs.rounds + 1
         /\ (2 ^ rs'.rounds) * Abs(rs'.d1 - rs'.d0) = Abs(NudgedD1(rs) - NudgedD0(rs))]_vars

\* C7 witness: MaxIter rounds were run on a bracket of nonzero width
C7_Witness ==
    /\ rs.pc = "done"
    /\ rs.rounds = MaxIter
    /\ rs.d0 # rs.d1
    /\ (2 ^ MaxIter) * Abs(rs.d1 - rs.d0) = Abs(NudgedD1(rs) - NudgedD0(rs))

\* what C8 bounds, in every state of a call
C8_Bounded ==
    /\ rs.nudges0 <= 4 /\ rs.nudges1 <= 4
    /\ rs.rounds <= rs.iterations
    /\ rs.evals <= 10 + rs.iterations
    /\ rs.rounds = 0 => rs.d0 = NudgedD0(rs) /\ rs.d1 = NudgedD1(rs)
    /\ rs.pc = "nudge0" => rs.sdf0 < 0
    /\ rs.pc = "sample1" /\ rs.nudges0 < 4 => rs.sdf0 >= 0
    /\ rs.pc = "nudge1" => rs.sdf1 > 0
    /\ rs.pc \in {"bisect", "pick"} /\ rs.rounds = 0 /\ rs.nudges1 < 4 => rs.sdf1 <= 0
    /\ rs.pc = "done" => rs.ret \in {rs.d0, rs.d1}

\* C8: the refiner terminates with a value for every sampler, d1 and iteration
\* count: at most 4 backward and 4 forward nudges of exactly 0.5, at most
\* `iterations` bisection rounds, at most 10 + iterations sampler evaluations,
\* and a nudge loop goes on only while the sample is negative (d0) or positive (d1).
C8_RefinerTerminates == [](C8_Bounded) /\ <>(rs.pc = "done")

\* C8 witness: a finished call that used all 10 + iterations evaluations
C8_Witness ==
    /\ rs.pc = "done"
    /\ rs.iterations = MaxIter
    /\ rs.nudges0 = 4 /\ rs.nudges1 = 4
    /\ rs.evals = 10 + MaxIter

Outcome(r) ==
    IF r.present
    THEN <<TRUE, r.position, r.previous_position, r.distance_along_ray>>
    ELSE <<FALSE>>

\* spacing of the points of a ray that the geometric statements look at
Tick == 2 ^ MaxIter

\* point p lies in the closed unit cube of cell c
InClosedCell(p, c) ==
    \A k \in 1..3 : c[k] * S <= p[k] /\ p[k] <= (c[k] + 1) * S

\* b is a's neighbour one step along the ray on exactly one axis
SteppedFrom(a, b, dir) ==
    \E k \in 1..3 : dir[k] # 0 /\ b = [a EXCEPT ![k] = @ + Sign(dir[k])]

ExampleVolumes == {v \in Volumes : v.solid = {<<0, 0, 0>>}}
ExampleOrigin == <<-5 * S, Tenth, Tenth>>

C2_GenericHonoursIterations ==
    call.fn = "generic" /\ call.mesher.kind = "other" =>
        Outcome(res) = Outcome(RaycastSdf(call.vol, call.ray_origin, call.ray_dir,
                                          call.max_distance, call.binary_search_iterations))

\* the squared length of the ray's span, origin to origin + dir * max_distance
SpanSq(c) == LengthSq(VSub(PointAt(c.ray_origin, c.ray_dir, c.max_distance), c.ray_origin))

\* C3 as stated: with the identity transform raycast_generic_world returns what
\* raycast_generic returns for the same ray and parameters, for every direction
\* and max distance.
C3_WorldIdentityEqualsGeneric ==
    call.fn = "world" /\ call.to_world = Identity =>
        Outcome(res) = Outcome(RaycastGeneric(call.vol, call.mesher, call.ray_origin,
                                              call.ray_dir, call.max_distance,
                                              call.collision_mask,
                                              call.binary_search_iterations))

\* C3 amended: the same, for a ray direction of unit length and a span
\* (direction * max distance) whose squared length is at least 1e-6.
C3_WorldIdentityUnitDir ==
    /\ call.fn = "world" /\ call.to_world = Identity
    /\ LengthSq(call.ray_dir) = S * S
    /\ SpanSq(call) >= 1
    => Outcome(res) = Outcome(RaycastGeneric(call.vol, call.mesher, call.ray_origin,
                                             call.ray_dir, call.max_distance,
                                             call.collision_mask,
                                             call.binary_search_iterations))

\* C3 witness: an identity-transform call with a unit direction and a span of 2
\* that returned a hit
C3_Witness ==
    /\ call.fn = "world" /\ call.to_world = Identity
    /\ LengthSq(call.ray_dir) = S * S
    /\ call.max_distance = 2 * S
    /\ res.present

\* C4: under a uniform scale s the distance returned by raycast_generic_world
\* is the world-space distance to the hit, s times the local-space distance.
C4_UniformScaleExact ==
    call.fn = "world" /\ res.present =>
        res.distance_along_ray = call.to_world.scale * res.distance_local

\* some point of the segment origin .. origin + dir * max_distance lies in the box
SegmentMeetsBox(position, size, origin, dir, max_distance) ==
    \E j \in 0..(max_distance \div Tick) :
        LET p == PointAt(origin, dir, j * Tick) IN
        \A k \in 1..3 : position[k] <= p[k] /\ p[k] <= position[k] + size[k]

\* C5: a result of raycast_blocky has a hit_position whose type has a baked
\* model, whose collision mask shares a bit with the caller's, and one of whose
\* boxes, moved to hit_position, meets the ray's whole segment; so a call with
\* mask 0 or a null library returns absent, the latter without reading a voxel.
C5_BlockyHitCondition ==
    call.fn = "blocky" =>
        /\ res.present =>
            LET v == GetVoxel(call.vol, res.position, "TYPE", 0) IN
            /\ HasModel(v)
            /\ BakedModels[v].box_collision_mask \cap call.collision_mask # {}
            /\ \E aabb \in BakedModels[v].box_collision_aabbs :
                  SegmentMeetsBox(VAdd(aabb.position, CellCorner(res.position)), aabb.size,
                                  call.ray_origin, call.ray_dir, call.max_distance)
        /\ call.collision_mask = {} => ~res.present
        /\ call.mesher.library_null => ~res.present /\ res.reads = 0

\* C5 witness: a hit on a half slab (type 2, layer 1) after passing other cells
C5_Witness ==
    /\ call.fn = "blocky" /\ res.present
    /\ GetVoxel(call.vol, res.position, "TYPE", 0) = 2
    /\ res.reads > 1

\* C6: raycast_generic_world returns absent without calling raycast_generic or
\* reading a voxel when the local span is degenerate (here: max distance 0 or
\* a zero direction), and otherwise calls raycast_generic with a direction of
\* unit length.
C6_DegenerateWorldRay ==
    call.fn = "world" =>
        LET sq == LocalRay(call.to_world, call.ray_origin, call.ray_dir,
                           call.max_distance).max_distance_local_sq
        IN  /\ (call.max_distance = 0 \/ call.ray_dir = <<0, 0, 0>>) => sq = 0
            /\ sq = 0 => ~res.present /\ ~res.invoked /\ res.reads = 0
            /\ sq >= 1 => res.invoked /\ LengthSq(res.dir_local) = S * S

\* C6 witness: a zero max distance from inside a solid cell, nothing read
C6_Witness ==
    /\ call.fn = "world" /\ call.max_distance = 0 /\ call.ray_dir # <<0, 0, 0>>
    /\ call.vol.solid # {}
    /\ ~res.present /\ ~res.invoked

\* C10: with iterations > 0 raycast_sdf returns a result exactly when it does
\* with 0 iterations, with the same hit and previous positions, and a distance
\* in [hit_distance_prev - 2, hit_distance + 2]; the refiner's value lies in
\* [-2, d1_initial + 2], and in [0, d1_initial] when no nudge was made.
C10_RefinementBounded ==
    call.fn = "sdf" /\ call.binary_search_iterations > 0 =>
        LET base == RaycastSdf(call.vol, call.ray_origin, call.ray_dir, call.max_distance, 0)
            tr == SdfTraversal(call.vol, call.ray_origin, call.ray_dir, call.max_distance)
        IN  /\ res.present = base.present
            /\ res.present =>
                /\ res.position = base.position
                /\ res.previous_position = base.previous_position
                /\ tr.distance_prev - 2 * S <= res.distance_along_ray
                /\ res.distance_along_ray <= base.distance_along_ray + 2 * S
                /\ rs.pc = "done"
                /\ rs.d1_initial = base.distance_along_ray - tr.distance_prev
                /\ rs.d1_initial >= 0
                /\ -(2 * S) <= rs.ret /\ rs.ret <= rs.d1_initial + 2 * S
                /\ (rs.nudges0 = 0 /\ rs.nudges1 = 0
                      => 0 <= rs.ret /\ rs.ret <= rs.d1_initial)

\* C10 witness: a refined distance beyond max_distance
C10_Witness ==
    /\ call.fn = "sdf" /\ call.binary_search_iterations > 0
    /\ res.present
    /\ res.distance_along_ray > call.max_distance

====
